---------------------------- MODULE Spec2Model ----------------------------
(***************************************************************************)
(* Model of the payment-gateway PaymentProcessor                           *)
(* (services/payment-gateway/src/services/PaymentProcessor.ts) and, each   *)
(* in a specification of its own, of the components around it: the card    *)
(* utilities, the shared log context, the TransactionController, the       *)
(* lending LoanApplicationService and the useAuth / useTransaction hooks.  *)
(* A specification moves the variables of its component and leaves the     *)
(* variables of the other components at their initial values.              *)
(*                                                                         *)
(* One PaymentProcessor instance is constructed and then used for a        *)
(* bounded number of invocations of processPayment, processRefund and      *)
(* capturePayment.  All state of an invocation is local to it (the         *)
(* closure variables transaction, error, retryCount), so the invocations   *)
(* are modelled one after the other; what they share is the uuid source.   *)
(* Every provider call is two steps: the request is sent (appended to      *)
(* requests) and, later, the provider's outcome arrives (appended to       *)
(* outcomes); the code between two awaits runs as one atomic action.       *)
(*                                                                         *)
(* JavaScript values are modelled with their dynamic types: undefined,     *)
(* numbers and strings are tagged records, objects are records whose       *)
(* fields are JavaScript values, and reading a field an object does not    *)
(* have yields undefined (Get).  payment_method and metadata are opaque    *)
(* pass-through values and timestamps carry no logic; they are left out.   *)
(*                                                                         *)
(* log holds what the current operation wrote to the winston logger and to *)
(* the console.  deadlineElapsed is the caller's clock: it turns true when *)
(* the time the caller allows for the running operation has passed; the    *)
(* methods take no deadline, so nothing in them reads it.                  *)
(***************************************************************************)
EXTENDS Integers, Sequences, FiniteSets, TLC

VARIABLES
    retryAttempts,   \* this.retryAttempts
    nextUuid,        \* the next value uuidv4() returns
    invocations,     \* number of operations started on this instance
    pc,              \* where the current operation is suspended
    opType,          \* which operation is running: none/payment/refund/capture
    args,            \* the arguments of the current operation
    transaction,     \* the Transaction object of the current operation
    caught,          \* processPayment: the error bound by `catch (error)`
    retryCount,      \* processPayment: retryCount of the catch block
    requests,        \* axios.post calls issued by the current operation
    outcomes,        \* how each of them ended (resolved / rejected)
    result,          \* how the operation ended: returned record or thrown error
    log,             \* events the current operation logged, in order
    deadlineElapsed  \* the caller's deadline for the current operation passed

\* processPayment's amount conversions, for amounts with a fraction
VARIABLES
    moneyAmount,     \* the number passed as amount, in hundredths
    moneyWire,       \* the amount string of the request body
    moneyStored      \* the amount of the Transaction record, in hundredths

\* CreditCardValidator and maskCreditCardNumber
VARIABLES
    cardNumbers,     \* the two card numbers the functions are applied to
    maskCalled,      \* which masking function was applied
    maskResults,     \* what it did for each of the two numbers
    validated,       \* the card details passed to validate
    validationResult,\* what validate returned
    validatorLog     \* what validate wrote to the logger

\* utils/logging and the logger of PaymentProcessor.ts
VARIABLES
    defaultMeta,     \* logger.defaultMeta of utils/logging
    requestPc,       \* where each request is between setting context and logging
    emitted,         \* the log events written, with the request that wrote them
    loggerLevel,     \* logger.level of PaymentProcessor.ts
    processors       \* the PaymentProcessor instances constructed so far

\* TransactionController
VARIABLES
    httpRequest,     \* the request being handled
    handlerPc,       \* where its handler is
    httpResponse,    \* the response written
    processorCalls,  \* calls made on the PaymentProcessor, all requests
    served,          \* requests answered so far, with their responses
    controllerLog    \* what the controller wrote to its logger

\* LoanApplicationService and DecisionLogger
VARIABLES
    decisions,       \* the LoanDecisions returned to callers, in order
    auditTrail,      \* the entries DecisionLogger.logDecision wrote, in order
    applications     \* the LoanApplications as the calls left them

\* useAuth
VARIABLES
    user,            \* the hook's user state
    storedToken,     \* localStorage[storageKey]
    isLoading,       \* the hook's isLoading state
    authError,       \* the hook's error state
    isMounted,       \* isMounted of the init effect
    authPc,          \* where initAuth, login and logout are suspended
    authCalls        \* login / logout calls started so far

\* useTransaction
VARIABLES
    hookTransaction, \* the hook's transaction state
    hookIsLoading,   \* the hook's isLoading state
    hookError,       \* the hook's error state
    intervals,       \* the active setInterval timers, each with the
                     \* transaction its callback closed over
    fetches,         \* fetchTransaction calls awaiting their response
    pollsIssued      \* poll requests issued so far

paymentVars == <<retryAttempts, nextUuid, invocations, pc, opType, args,
                 transaction, caught, retryCount, requests, outcomes, result,
                 log, deadlineElapsed>>
moneyVars == <<moneyAmount, moneyWire, moneyStored>>
cardVars == <<cardNumbers, maskCalled, maskResults, validated,
              validationResult, validatorLog>>
logVars == <<defaultMeta, requestPc, emitted, loggerLevel, processors>>
controllerVars == <<httpRequest, handlerPc, httpResponse, processorCalls,
                    served, controllerLog>>
lendingVars == <<decisions, auditTrail, applications>>
authVars == <<user, storedToken, isLoading, authError, isMounted, authPc,
              authCalls>>
hookVars == <<hookTransaction, hookIsLoading, hookError, intervals, fetches,
              pollsIssued>>

vars == <<paymentVars, moneyVars, cardVars, logVars, controllerVars,
          lendingVars, authVars, hookVars>>

\* what the actions of one component leave alone
exceptPayment == <<moneyVars, cardVars, logVars, controllerVars, lendingVars,
                   authVars, hookVars>>
exceptMoney == <<paymentVars, cardVars, logVars, controllerVars, lendingVars,
                 authVars, hookVars>>
exceptCard == <<paymentVars, moneyVars, logVars, controllerVars, lendingVars,
                authVars, hookVars>>
exceptLog == <<paymentVars, moneyVars, cardVars, controllerVars, lendingVars,
               authVars, hookVars>>
exceptController == <<paymentVars, moneyVars, cardVars, logVars, lendingVars,
                      authVars, hookVars>>
exceptLending == <<paymentVars, moneyVars, cardVars, logVars, controllerVars,
                   authVars, hookVars>>
exceptAuth == <<paymentVars, moneyVars, cardVars, logVars, controllerVars,
                lendingVars, hookVars>>
exceptHook == <<paymentVars, moneyVars, cardVars, logVars, controllerVars,
                lendingVars, authVars>>

---------------------------------------------------------------------------
(* Bounds of the model *)

\* operations started on the processor instance
MaxInvocations == 2
\* largest explicit options.retryAttempts tried by the constructor
MaxRetryOption == 2

(* Program constants *)

MAX_RETRY_ATTEMPTS == 3

---------------------------------------------------------------------------
(* JavaScript values *)

Undefined == [undefined |-> TRUE]
Num(n) == [num |-> n]
Str(s) == [str |-> s]
\* a string built character by character (a decimal string)
Chars(cs) == [chars |-> cs]
Uuid(n) == [uuid |-> n]
\* the object literal {}
EmptyObject == <<>>
\* a template literal `${prefix}${v}`
Template(prefix, v) == [template |-> prefix, arg |-> v]

IsObject(v) ==
    /\ v # Undefined
    /\ DOMAIN v \cap {"undefined", "num", "str", "chars", "uuid", "template"} = {}

\* obj.f : undefined when the object has no such property
Get(obj, f) == IF f \in DOMAIN obj THEN obj[f] ELSE Undefined

Truthy(v) == v # Undefined /\ v # Num(0) /\ v # Str("") /\ v # Chars(<<>>)

\* a || b
Or(a, b) == IF Truthy(a) THEN a ELSE b

---------------------------------------------------------------------------
(* The state a component is left in by the specifications of the others *)

MoneyIdle == moneyAmount = 0 /\ moneyWire = Undefined /\ moneyStored = Undefined

CardIdle ==
    /\ cardNumbers = <<>> /\ maskCalled = "none" /\ maskResults = <<>>
    /\ validated = Undefined /\ validationResult = Undefined
    /\ validatorLog = <<>>

LogIdle ==
    /\ defaultMeta = EmptyObject /\ requestPc = <<>> /\ emitted = <<>>
    /\ loggerLevel = Str("info") /\ processors = <<>>

ControllerIdle ==
    /\ httpRequest = Undefined /\ handlerPc = "idle"
    /\ httpResponse = Undefined /\ processorCalls = <<>> /\ served = <<>>
    /\ controllerLog = <<>>

LendingIdle == decisions = <<>> /\ auditTrail = <<>> /\ applications = <<>>

AuthIdle ==
    /\ user = Undefined /\ storedToken = Undefined /\ isLoading = TRUE
    /\ authError = Undefined
    /\ isMounted = TRUE /\ authPc = <<>> /\ authCalls = 0

HookIdle ==
    /\ hookTransaction = Undefined /\ hookIsLoading = FALSE
    /\ hookError = Undefined
    /\ intervals = <<>> /\ fetches = 0 /\ pollsIssued = 0

---------------------------------------------------------------------------
(* decimal.js: new Decimal(n), toNumber(), toString() for integer amounts  *)

RECURSIVE DigitsOf(_)
DigitsOf(n) == IF n < 10 THEN <<n>> ELSE Append(DigitsOf(n \div 10), n % 10)

RECURSIVE ValueOf(_)
ValueOf(ds) ==
    IF Len(ds) = 0 THEN 0
    ELSE 10 * ValueOf(SubSeq(ds, 1, Len(ds) - 1)) + ds[Len(ds)]

DigitChar(d) == <<"0", "1", "2", "3", "4", "5", "6", "7", "8", "9">>[d + 1]

\* new Decimal(amount): sign and decimal digits
Decimal(n) == [s |-> IF n < 0 THEN -1 ELSE 1,
               d |-> DigitsOf(IF n < 0 THEN -n ELSE n)]

DecimalToNumber(dec) == Num(dec.s * ValueOf(dec.d))

DecimalToString(dec) ==
    Chars((IF dec.s < 0 THEN <<"-">> ELSE <<>>)
          \o [i \in 1..Len(dec.d) |-> DigitChar(dec.d[i])])

\* Number.prototype.toString() of an integer
NumberToString(v) == DecimalToString(Decimal(v.num))

---------------------------------------------------------------------------
(* Errors *)

PaymentError(message, code) ==
    [name |-> Str("PaymentError"), message |-> message, code |-> code]

\* reading a property of undefined
TypeError ==
    [name |-> Str("TypeError"),
     message |-> Str("Cannot read properties of undefined")]

---------------------------------------------------------------------------
(* What the caller passes and what the provider may answer *)

\* amounts in minor units, a zero and a negative one included
Amounts == {1000, 1999, 0, -500}
\* currency codes, an empty one included
Currencies == {"USD", "EUR", ""}
\* processRefund / capturePayment: amount omitted, 0, or a positive amount
OptionalAmounts == {Undefined, Num(0), Num(500), Num(3000)}
OriginalIds == {"txn_1"}

ProviderIds == {"prov_1", "prov_2"}

\* error objects of an application-level decline; the second carries neither
\* message nor code, which exercises the `||` defaults
DeclineErrors ==
    {[message |-> Str("Card declined"), code |-> Str("card_declined")],
     EmptyObject}

\* response.data of POST /payments
PaymentResponseData ==
    {[status |-> Str("succeeded"), id |-> Str(p)] : p \in ProviderIds}
    \cup {[status |-> Str("failed"), error |-> e] : e \in DeclineErrors}
    \cup {[status |-> Str("failed")], Undefined}

\* response.data of POST /refunds and POST /captures
SettlementResponseData ==
    {[status |-> Str("succeeded"), id |-> Str("prov_1"),
      amount |-> Chars(<<"5", "0", "0">>), currency |-> Str("USD")],
     [status |-> Str("failed"),
      error |-> [message |-> Str("Already refunded"),
                 code |-> Str("already_refunded")]],
     Undefined}

\* errors axios rejects with: network error, timeout, 5xx
TransportErrors ==
    {[name |-> Str("Error"), message |-> Str("Network error")],
     [name |-> Str("AxiosError"), message |-> Str("timeout exceeded"),
      code |-> Str("ECONNABORTED")]}

Resolved(data) == [settled |-> "resolved", data |-> data]
Rejected(err) == [settled |-> "rejected", error |-> err]

PaymentOutcomes ==
    {Resolved(d) : d \in PaymentResponseData}
    \cup {Rejected(e) : e \in TransportErrors}

SettlementOutcomes ==
    {Resolved(d) : d \in SettlementResponseData}
    \cup {Rejected(e) : e \in TransportErrors}

---------------------------------------------------------------------------
(* PaymentProcessor.constructor *)

\* options.retryAttempts || MAX_RETRY_ATTEMPTS  (0 stands for an absent option)
Constructor(option) == Or(Num(option), Num(MAX_RETRY_ATTEMPTS)).num

---------------------------------------------------------------------------
(* processPayment *)

\* the Transaction literal built before the first call
NewPaymentTransaction(transactionId, amount, currency) ==
    [id |-> transactionId,
     amount |-> DecimalToNumber(Decimal(amount)),
     currency |-> Str(currency),
     status |-> "pending",
     type |-> "payment",
     providerTransactionId |-> Undefined,
     originalTransactionId |-> Undefined,
     error |-> Undefined]

\* the first axios.post of processPayment
FirstPaymentRequest(transactionId, amount, currency) ==
    [url |-> "/payments",
     body |-> [amount |-> DecimalToString(Decimal(amount)),
               currency |-> Str(currency),
               idempotency_key |-> transactionId],
     timeout |-> Undefined]

\* mutant of RetryPaymentRequest: every retry is sent under a fresh key
RetryPaymentRequest_FreshKey(transactionId, amount, currency) ==
    [url |-> "/payments",
     body |-> [amount |-> DecimalToString(Decimal(amount)),
               currency |-> Str(currency),
               idempotency_key |-> Uuid(transactionId.uuid + 1)],
     timeout |-> Undefined]

\* the axios.post inside processWithRetry
RetryPaymentRequest(transactionId, amount, currency) ==
    [url |-> "/payments",
     body |-> [amount |-> DecimalToString(Decimal(amount)),
               currency |-> Str(currency),
               idempotency_key |-> transactionId],
     timeout |-> Undefined]

\* mutant of CompleteTransaction: the provider's id is not taken over
CompleteTransaction_OwnId(tx, data) ==
    [tx EXCEPT !.status = "completed", !.providerTransactionId = tx.id]

\* if (response.data.status === 'succeeded') { ... return transaction }
CompleteTransaction(tx, data) ==
    [tx EXCEPT !.status = "completed",
               !.providerTransactionId = Get(data, "id")]

\* the else branch up to the throw: the record is marked failed
DeclineTransaction(tx, data) ==
    [tx EXCEPT !.status = "failed", !.error = Get(data, "error")]

\* what the else branch throws: the PaymentError, or the TypeError of reading
\* .message of an absent error object
DeclineThrow(data) ==
    IF IsObject(Get(data, "error"))
    THEN PaymentError(
             Or(Get(Get(data, "error"), "message"),
                Str("Payment processing failed")),
             Or(Get(Get(data, "error"), "code"), Str("unknown_error")))
    ELSE TypeError

\* logger.info / logger.warn / logger.error(message, meta)
LoggerEvent(level, message, meta) ==
    [sink |-> "logger", level |-> level, message |-> message, meta |-> meta]

\* console.log(message, value)
ConsoleEvent(message, value) ==
    [sink |-> "console", level |-> "log", message |-> message, meta |-> value]

\* logger.info('Starting payment processing', ...)
PaymentStartLog(transactionId, amount, currency) ==
    <<LoggerEvent("info", "Starting payment processing",
                  [transactionId |-> transactionId, amount |-> Num(amount),
                   currency |-> Str(currency)])>>

\* logger.info('Payment processed successfully', ...)
PaymentSuccessLog(tx, data) ==
    <<LoggerEvent("info", "Payment processed successfully",
                  [transactionId |-> tx.id,
                   providerTransactionId |-> Get(data, "id")])>>

\* console.log('Payment processing failed', response.data)
PaymentDeclineLog(data) ==
    <<ConsoleEvent("Payment processing failed", data)>>

\* logger.error('Payment processing error', ...) of the catch block
PaymentErrorLog(tx, error) ==
    <<LoggerEvent("error", "Payment processing error",
                  [transactionId |-> tx.id, error |-> Get(error, "message"),
                   code |-> Get(error, "code")])>>

\* the try block after the first call has settled:
\* returned = TRUE when it returns the record, else thrown is what it throws;
\* logged is what it wrote to the logger and the console
TryBlock(tx, outcome) ==
    IF outcome.settled = "rejected"
    THEN [returned |-> FALSE, tx |-> tx, thrown |-> outcome.error,
          logged |-> <<>>]
    ELSE IF ~IsObject(outcome.data)
    THEN [returned |-> FALSE, tx |-> tx, thrown |-> TypeError, logged |-> <<>>]
    ELSE IF Get(outcome.data, "status") = Str("succeeded")
    THEN [returned |-> TRUE, tx |-> CompleteTransaction(tx, outcome.data),
          thrown |-> Undefined, logged |-> PaymentSuccessLog(tx, outcome.data)]
    ELSE [returned |-> FALSE, tx |-> DeclineTransaction(tx, outcome.data),
          thrown |-> DeclineThrow(outcome.data),
          logged |-> PaymentDeclineLog(outcome.data)]

\* mutant of SendRetry: the post is not awaited and is issued a second time
\* while the first is still in flight
SendRetry_NotAwaited(sent, tx, a) ==
    Append(Append(sent, RetryPaymentRequest(tx.id, a.amount, a.currency)),
           RetryPaymentRequest(tx.id, a.amount, a.currency))

\* processWithRetry(): one axios.post is sent and awaited
SendRetry(sent, tx, a) ==
    Append(sent, RetryPaymentRequest(tx.id, a.amount, a.currency))

\* mutant of ShouldRetry: the retry loop has no bound
ShouldRetry_Always(count, attempts) == count >= 0

\* processWithRetry's catch: if (retryCount < this.retryAttempts)
ShouldRetry(count, attempts) == count < attempts

\* mutant of CatchFailTransaction: the resolved retry marks the record
\* completed
CatchFailTransaction_Completes(tx, error) ==
    [tx EXCEPT !.status = "completed"]

\* mutant of CatchFailTransaction: the error is stored, the status is not set
CatchFailTransaction_NoStatus(tx, error) ==
    [tx EXCEPT !.error = [message |-> Get(error, "message"),
                          code |-> Or(Get(error, "code"),
                                      Str("provider_error"))]]

\* the catch block after processWithRetry() has resolved
CatchFailTransaction(tx, error) ==
    [tx EXCEPT !.status = "failed",
               !.error = [message |-> Get(error, "message"),
                          code |-> Or(Get(error, "code"),
                                      Str("provider_error"))]]

CatchThrow(error) ==
    PaymentError(Get(error, "message"),
                 Or(Get(error, "code"), Str("provider_error")))

---------------------------------------------------------------------------
(* processRefund and capturePayment *)

\* amount ? amount.toString() : undefined
OptionalAmountString(amount) ==
    IF Truthy(amount) THEN NumberToString(amount) ELSE Undefined

\* the axios.post of processRefund
RefundRequest(transactionId, amount) ==
    [url |-> "/refunds",
     body |-> [transaction_id |-> Str(transactionId),
               amount |-> OptionalAmountString(amount)],
     timeout |-> Num(30000)]

\* the axios.post of capturePayment
CaptureRequest(authorizationId, amount) ==
    [url |-> "/captures",
     body |-> [authorization_id |-> Str(authorizationId),
               amount |-> OptionalAmountString(amount)],
     timeout |-> Num(30000)]

\* logger.info('Starting refund processing', ...) and, for amounts above
\* 50000, logger.warn('Large refund amount detected', ...)
RefundStartLog(transactionId, amount) ==
    <<LoggerEvent("info", "Starting refund processing",
                  [transactionId |-> Str(transactionId), amount |-> amount])>>
    \o (IF Truthy(amount) /\ amount.num > 50000
        THEN <<LoggerEvent("warn", "Large refund amount detected",
                           [transactionId |-> Str(transactionId),
                            amount |-> amount])>>
        ELSE <<>>)

\* logger.error('Refund processing error', ...)
RefundErrorLog(transactionId, error) ==
    <<LoggerEvent("error", "Refund processing error",
                  [transactionId |-> Str(transactionId),
                   error |-> Get(error, "message")])>>

\* logger.info('Capturing authorized payment', ...)
CaptureStartLog(authorizationId, amount) ==
    <<LoggerEvent("info", "Capturing authorized payment",
                  [authorizationId |-> Str(authorizationId),
                   amount |-> amount])>>

\* logger.error('Payment capture error', ...)
CaptureErrorLog(authorizationId, error) ==
    <<LoggerEvent("error", "Payment capture error",
                  [authorizationId |-> Str(authorizationId),
                   error |-> Get(error, "message")])>>

\* the refundTransaction / captureTransaction literal built from the response
SettlementTransaction(type, id, originalId, amount, data) ==
    [id |-> id,
     amount |-> Or(amount, Get(data, "amount")),
     currency |-> Get(data, "currency"),
     status |-> "completed",
     type |-> type,
     providerTransactionId |-> Get(data, "id"),
     originalTransactionId |-> Str(originalId),
     error |-> Undefined]

\* the error processRefund / capturePayment caught after its call settled:
\* the transport error, or the TypeError of reading a property of an absent
\* response.data (response.data.currency)
SettlementCaught(outcome) ==
    IF outcome.settled = "rejected" THEN outcome.error ELSE TypeError

\* the catch block of processRefund
RefundThrow(error) ==
    PaymentError(Template("Failed to process refund: ", Get(error, "message")),
                 Or(Get(error, "code"), Str("refund_error")))

\* the catch block of capturePayment
CaptureThrow(error) ==
    PaymentError(Template("Failed to capture payment: ", Get(error, "message")),
                 Or(Get(error, "code"), Str("capture_error")))

---------------------------------------------------------------------------
(* The state machine *)

\* the state of one processor before its first operation
PaymentInit ==
    /\ \E option \in 0..MaxRetryOption : retryAttempts = Constructor(option)
    /\ nextUuid = 1
    /\ invocations = 0
    /\ pc = "idle"
    /\ opType = "none"
    /\ args = EmptyObject
    /\ transaction = Undefined
    /\ caught = Undefined
    /\ retryCount = 0
    /\ requests = <<>>
    /\ outcomes = <<>>
    /\ result = Undefined
    /\ log = <<>>
    /\ deadlineElapsed = FALSE

Init ==
    /\ PaymentInit
    /\ MoneyIdle /\ CardIdle /\ LogIdle /\ ControllerIdle /\ LendingIdle
    /\ AuthIdle /\ HookIdle

\* the caller may start an operation when none is running
CanStart == pc \in {"idle", "done"} /\ invocations < MaxInvocations

\* processPayment up to its first await: the record is created and the first
\* request is sent
processPayment(amount, currency) ==
    /\ UNCHANGED exceptPayment
    /\ CanStart
    /\ invocations' = invocations + 1
    /\ nextUuid' = nextUuid + 1
    /\ opType' = "payment"
    /\ args' = [amount |-> amount, currency |-> currency]
    /\ log' = PaymentStartLog(Uuid(nextUuid), amount, currency)
    /\ transaction' = NewPaymentTransaction(Uuid(nextUuid), amount, currency)
    /\ requests' = <<FirstPaymentRequest(Uuid(nextUuid), amount, currency)>>
    /\ outcomes' = <<>>
    /\ caught' = Undefined
    /\ retryCount' = 0
    /\ result' = Undefined
    /\ deadlineElapsed' = FALSE
    /\ pc' = "first_call"
    /\ UNCHANGED retryAttempts

\* the first call settles: the try block runs to its return or its throw; a
\* throw enters the catch block, which sets retryCount = 0 and sends the first
\* request of processWithRetry
FirstCallSettles(outcome) ==
    /\ UNCHANGED exceptPayment
    /\ pc = "first_call"
    /\ outcomes' = Append(outcomes, outcome)
    /\ LET t == TryBlock(transaction, outcome) IN
        /\ transaction' = t.tx
        /\ log' = log \o t.logged
        /\ IF t.returned
           THEN /\ result' = [returned |-> t.tx]
                /\ pc' = "done"
                /\ UNCHANGED <<caught, retryCount, requests>>
           ELSE /\ caught' = t.thrown
                /\ retryCount' = 0
                /\ requests' = SendRetry(requests, transaction, args)
                /\ pc' = "retry_call"
                /\ UNCHANGED result
    /\ UNCHANGED <<retryAttempts, nextUuid, invocations, opType, args,
                   deadlineElapsed>>

\* a call of processWithRetry resolves: its response is dropped, the record is
\* marked failed with the error of the try block, and a PaymentError is thrown
RetryCallResolves(outcome) ==
    /\ UNCHANGED exceptPayment
    /\ pc = "retry_call"
    /\ outcome.settled = "resolved"
    /\ outcomes' = Append(outcomes, outcome)
    /\ transaction' = CatchFailTransaction(transaction, caught)
    /\ log' = log \o PaymentErrorLog(transaction, caught)
    /\ result' = [thrown |-> CatchThrow(caught)]
    /\ pc' = "done"
    /\ UNCHANGED <<retryAttempts, nextUuid, invocations, opType, args, caught,
                   retryCount, requests, deadlineElapsed>>

\* a call of processWithRetry rejects: it is sent again while
\* retryCount < this.retryAttempts, else its error leaves processPayment
RetryCallRejects(outcome) ==
    /\ UNCHANGED exceptPayment
    /\ pc = "retry_call"
    /\ outcome.settled = "rejected"
    /\ outcomes' = Append(outcomes, outcome)
    /\ IF ShouldRetry(retryCount, retryAttempts)
       THEN /\ retryCount' = retryCount + 1
            /\ requests' = SendRetry(requests, transaction, args)
            /\ UNCHANGED <<pc, result>>
       ELSE /\ result' = [thrown |-> outcome.error]
            /\ pc' = "done"
            /\ UNCHANGED <<retryCount, requests>>
    /\ UNCHANGED <<retryAttempts, nextUuid, invocations, opType, args, caught,
                   transaction, log, deadlineElapsed>>

\* processRefund up to its await: the request is sent, no record exists yet
processRefund(transactionId, amount) ==
    /\ UNCHANGED exceptPayment
    /\ CanStart
    /\ invocations' = invocations + 1
    /\ opType' = "refund"
    /\ args' = [transactionId |-> transactionId, amount |-> amount]
    /\ log' = RefundStartLog(transactionId, amount)
    /\ transaction' = Undefined
    /\ requests' = <<RefundRequest(transactionId, amount)>>
    /\ outcomes' = <<>>
    /\ caught' = Undefined
    /\ retryCount' = 0
    /\ result' = Undefined
    /\ deadlineElapsed' = FALSE
    /\ pc' = "refund_call"
    /\ UNCHANGED <<retryAttempts, nextUuid>>

\* capturePayment up to its await
capturePayment(authorizationId, amount) ==
    /\ UNCHANGED exceptPayment
    /\ CanStart
    /\ invocations' = invocations + 1
    /\ opType' = "capture"
    /\ args' = [transactionId |-> authorizationId, amount |-> amount]
    /\ log' = CaptureStartLog(authorizationId, amount)
    /\ transaction' = Undefined
    /\ requests' = <<CaptureRequest(authorizationId, amount)>>
    /\ outcomes' = <<>>
    /\ caught' = Undefined
    /\ retryCount' = 0
    /\ result' = Undefined
    /\ deadlineElapsed' = FALSE
    /\ pc' = "capture_call"
    /\ UNCHANGED <<retryAttempts, nextUuid>>

\* the call of processRefund settles: a response with a data object yields a
\* completed record with a fresh id, anything else a PaymentError
RefundCallSettles(outcome) ==
    /\ UNCHANGED exceptPayment
    /\ pc = "refund_call"
    /\ outcomes' = Append(outcomes, outcome)
    /\ IF outcome.settled = "resolved" /\ IsObject(outcome.data)
       THEN /\ transaction' = SettlementTransaction("refund", Uuid(nextUuid),
                                  args.transactionId, args.amount, outcome.data)
            /\ nextUuid' = nextUuid + 1
            /\ result' = [returned |-> transaction']
            /\ UNCHANGED <<caught, log>>
       ELSE /\ caught' = SettlementCaught(outcome)
            /\ log' = log \o RefundErrorLog(args.transactionId, caught')
            /\ result' = [thrown |-> RefundThrow(caught')]
            /\ UNCHANGED <<transaction, nextUuid>>
    /\ pc' = "done"
    /\ UNCHANGED <<retryAttempts, invocations, opType, args, retryCount,
                   requests, deadlineElapsed>>

\* the call of capturePayment settles
CaptureCallSettles(outcome) ==
    /\ UNCHANGED exceptPayment
    /\ pc = "capture_call"
    /\ outcomes' = Append(outcomes, outcome)
    /\ IF outcome.settled = "resolved" /\ IsObject(outcome.data)
       THEN /\ transaction' = SettlementTransaction("capture", Uuid(nextUuid),
                                  args.transactionId, args.amount, outcome.data)
            /\ nextUuid' = nextUuid + 1
            /\ result' = [returned |-> transaction']
            /\ UNCHANGED <<caught, log>>
       ELSE /\ caught' = SettlementCaught(outcome)
            /\ log' = log \o CaptureErrorLog(args.transactionId, caught')
            /\ result' = [thrown |-> CaptureThrow(caught')]
            /\ UNCHANGED <<transaction, nextUuid>>
    /\ pc' = "done"
    /\ UNCHANGED <<retryAttempts, invocations, opType, args, retryCount,
                   requests, deadlineElapsed>>

\* the time the caller allows for the running operation passes; the operation
\* has no deadline parameter and no state of it changes
DeadlineElapses ==
    /\ UNCHANGED exceptPayment
    /\ pc \notin {"idle", "done"}
    /\ ~deadlineElapsed
    /\ deadlineElapsed' = TRUE
    /\ UNCHANGED <<retryAttempts, nextUuid, invocations, pc, opType, args,
                   transaction, caught, retryCount, requests, outcomes, result,
                   log>>

Next ==
    \/ \E a \in Amounts, c \in Currencies : processPayment(a, c)
    \/ \E o \in PaymentOutcomes : FirstCallSettles(o)
    \/ \E o \in PaymentOutcomes : RetryCallResolves(o)
    \/ \E o \in PaymentOutcomes : RetryCallRejects(o)
    \/ \E t \in OriginalIds, a \in OptionalAmounts : processRefund(t, a)
    \/ \E t \in OriginalIds, a \in OptionalAmounts : capturePayment(t, a)
    \/ \E o \in SettlementOutcomes : RefundCallSettles(o)
    \/ \E o \in SettlementOutcomes : CaptureCallSettles(o)
    \/ DeadlineElapses

Spec == Init /\ [][Next]_vars

---------------------------------------------------------------------------
(* Vocabulary of the properties: the provider outcomes of the design        *)
(* (Accepted, Declined, TransientFailure, MalformedResponse) and the ways   *)
(* an operation ends                                                        *)

IsTransientFailure(o) == o.settled = "rejected"

IsAccepted(o) ==
    /\ o.settled = "resolved"
    /\ IsObject(o.data)
    /\ Get(o.data, "status") = Str("succeeded")

IsDeclined(o) ==
    /\ o.settled = "resolved"
    /\ IsObject(o.data)
    /\ Get(o.data, "status") = Str("failed")
    /\ IsObject(Get(o.data, "error"))

IsMalformedResponse(o) ==
    o.settled = "resolved" /\ ~IsAccepted(o) /\ ~IsDeclined(o)

Finished == pc = "done"
Returned == Finished /\ "returned" \in DOMAIN result
Thrown == Finished /\ "thrown" \in DOMAIN result

IdempotencyKey(request) == Get(request.body, "idempotency_key")

TypedErrors == {Str("PaymentError"), Str("ValidationError"), Str("TimeoutError")}

---------------------------------------------------------------------------
(* Properties of processPayment, processRefund and capturePayment *)

\* C1: a processPayment whose provider fails transiently k times,
\* 1 <= k < retryAttempts, and then accepts returns a completed record, and
\* the provider received exactly k+1 submissions, all with the same
\* idempotency key.
C1_TransientThenAcceptedCompletes ==
    ( /\ opType = "payment"
      /\ Finished
      /\ Len(outcomes) >= 2
      /\ Len(outcomes) - 1 < retryAttempts
      /\ \A i \in 1..(Len(outcomes) - 1) : IsTransientFailure(outcomes[i])
      /\ IsAccepted(outcomes[Len(outcomes)]) )
    => /\ Returned
       /\ result.returned.status = "completed"
       /\ Len(requests) = Len(outcomes)
       /\ \A i, j \in 1..Len(requests) :
              IdempotencyKey(requests[i]) = IdempotencyKey(requests[j])

\* C2: a processPayment whose every provider attempt fails transiently ends
\* with the record failed after exactly retryAttempts provider calls, and at
\* no time has it made more calls than that.
C2_AllTransientFailsAfterMaxAttempts ==
    ( /\ opType = "payment"
      /\ \A i \in 1..Len(outcomes) : IsTransientFailure(outcomes[i]) )
    => /\ Len(requests) <= retryAttempts
       /\ Finished => /\ transaction.status = "failed"
                      /\ Len(requests) = retryAttempts

\* C3: a processPayment whose first provider response is a decline makes
\* exactly one provider call: the declined payment is never resubmitted.
C3_DeclinedNeverResubmitted ==
    ( /\ opType = "payment"
      /\ Len(outcomes) >= 1
      /\ IsDeclined(outcomes[1]) )
    => Len(requests) = 1

\* C4: a processPayment whose first provider response is 'succeeded' with
\* provider id P returns a completed record with providerTransactionId = P
\* and the amount and currency of the request, after exactly one provider
\* call.
C4_AcceptedFirstAttempt ==
    ( /\ opType = "payment"
      /\ Len(outcomes) >= 1
      /\ IsAccepted(outcomes[1]) )
    => /\ Returned
       /\ result.returned.status = "completed"
       /\ result.returned.providerTransactionId = Get(outcomes[1].data, "id")
       /\ result.returned.amount = Num(args.amount)
       /\ result.returned.currency = Str(args.currency)
       /\ Len(requests) = 1

C4_Witness ==
    /\ opType = "payment"
    /\ Finished
    /\ Len(outcomes) = 1
    /\ IsAccepted(outcomes[1])
    /\ Get(outcomes[1].data, "id") = Str("prov_2")
    /\ args.amount = 1999

\* C5: when processPayment has finished after at least one provider call,
\* its record is completed or failed, never pending, and it is not failed
\* if the provider accepted one of the submissions.
C5_FinishedRecordTerminal ==
    ( /\ opType = "payment"
      /\ Finished
      /\ Len(requests) >= 1 )
    => /\ transaction.status \in {"completed", "failed"}
       /\ (\E i \in 1..Len(outcomes) : IsAccepted(outcomes[i]))
              => transaction.status # "failed"

\* C6: when the provider declines a payment with error code c, processPayment
\* throws a PaymentError with code c and the record is failed with
\* error.code = c, whatever the later provider calls do.
C6_DeclineCodeMirrored ==
    ( /\ opType = "payment"
      /\ Finished
      /\ IsDeclined(outcomes[1])
      /\ Truthy(Get(Get(outcomes[1].data, "error"), "code")) )
    => /\ Thrown
       /\ Get(result.thrown, "name") = Str("PaymentError")
       /\ Get(result.thrown, "code") = Get(Get(outcomes[1].data, "error"), "code")
       /\ transaction.status = "failed"
       /\ Get(transaction.error, "code")
              = Get(Get(outcomes[1].data, "error"), "code")

\* C7: every operation ends either by returning a finalized record or by
\* throwing one typed error (PaymentError, ValidationError, TimeoutError);
\* a transport error never leaves the operation as it is.
C7_RecordOrTypedError ==
    Finished
    => \/ /\ Returned
          /\ result.returned.status \in {"completed", "failed"}
       \/ /\ Thrown
          /\ Get(result.thrown, "name") \in TypedErrors

\* C8: a request is resubmitted only after a transient failure: after a
\* declined or malformed response no further request is sent and the
\* operation has ended with the record failed.
C8_RetryOnlyAfterTransient ==
    opType = "payment"
    => \A i \in 1..Len(outcomes) :
           (IsDeclined(outcomes[i]) \/ IsMalformedResponse(outcomes[i]))
           => /\ Len(requests) = i
              /\ Finished
              /\ transaction.status = "failed"

\* C9: every request one processPayment invocation sends, the first and each
\* retry, carries the same idempotency_key, the id of the record that the
\* invocation created.
C9_SameIdempotencyKey ==
    opType = "payment"
    => /\ "uuid" \in DOMAIN transaction.id
       /\ \A i \in 1..Len(requests) :
              IdempotencyKey(requests[i]) = transaction.id

C9_Witness ==
    /\ opType = "payment"
    /\ invocations = 2
    /\ Len(requests) >= 3
    /\ Finished

\* C10: every provider request of processPayment, processRefund and
\* capturePayment carries an idempotency key, the id of the operation's
\* transaction.
C10_EveryCallCarriesKey ==
    \A i \in 1..Len(requests) :
        /\ IdempotencyKey(requests[i]) # Undefined
        /\ transaction # Undefined
               => IdempotencyKey(requests[i]) = transaction.id

---------------------------------------------------------------------------
(* Further vocabulary *)

\* what the ledger holds as refundable for an original transaction (20.00)
RefundableRemainder(originalId) == IF originalId = "txn_1" THEN 2000 ELSE 0

WellFormedCurrencies == {"USD", "EUR"}

TerminalStatuses == {"completed", "failed"}

\* provider submissions sent and not yet settled
InFlight == Len(requests) - Len(outcomes)

StartMessages ==
    {"Starting payment processing", "Starting refund processing",
     "Capturing authorized payment"}

\* events the logger received that carry the id of the record
EventsAbout(id) ==
    {i \in 1..Len(log) :
        /\ log[i].sink = "logger"
        /\ Get(log[i].meta, "transactionId") = id}

CreatedEvents(id) == {i \in EventsAbout(id) : log[i].message \in StartMessages}
TerminalEvents(id) == {i \in EventsAbout(id) : log[i].message \notin StartMessages}

---------------------------------------------------------------------------
(* Further properties *)

\* C11: a processRefund whose amount exceeds the refundable remainder of the
\* original transaction makes no provider call and throws a ValidationError.
C11_RefundAboveRemainderRejected ==
    ( /\ opType = "refund"
      /\ Truthy(args.amount)
      /\ args.amount.num > RefundableRemainder(args.transactionId) )
    => /\ Len(requests) = 0
       /\ Finished => /\ Thrown
                      /\ Get(result.thrown, "name") = Str("ValidationError")

\* C12: when the provider answers a refund or a capture with status 'failed',
\* the operation throws a PaymentError with the provider's error code and
\* returns no completed record.
C12_SettlementDeclineFails ==
    ( /\ opType \in {"refund", "capture"}
      /\ Finished
      /\ IsDeclined(outcomes[1]) )
    => /\ Thrown
       /\ Get(result.thrown, "name") = Str("PaymentError")
       /\ Get(result.thrown, "code") = Get(Get(outcomes[1].data, "error"), "code")

\* C13: every step that changes the status of a record takes it from pending
\* to completed or to failed, and no step leaves a record in status canceled.
C13_StatusOnlyMovesForward ==
    [][ IsObject(transaction')
        => /\ transaction'.status # "canceled"
           /\ ( /\ IsObject(transaction)
                /\ transaction.id = transaction'.id
                /\ transaction.status # transaction'.status )
              => /\ transaction.status = "pending"
                 /\ transaction'.status \in TerminalStatuses ]_vars

C13_Witness ==
    /\ opType = "payment"
    /\ Finished
    /\ Len(outcomes) >= 2
    /\ IsDeclined(outcomes[1])
    /\ outcomes[Len(outcomes)].settled = "resolved"
    /\ transaction.status = "failed"

\* C14: a processPayment with a non-positive amount or a missing or malformed
\* currency makes no provider call and throws a ValidationError.
C14_InvalidPaymentRejected ==
    ( /\ opType = "payment"
      /\ (args.amount <= 0 \/ args.currency \notin WellFormedCurrencies) )
    => /\ Len(requests) = 0
       /\ Finished => /\ Thrown
                      /\ Get(result.thrown, "name") = Str("ValidationError")

\* C15: at most one provider submission of an operation is in flight: a
\* request is sent only when every earlier one has settled.
C15_OneSubmissionInFlight ==
    /\ InFlight \in {0, 1}
    /\ Finished => InFlight = 0

C15_Witness ==
    /\ opType = "payment"
    /\ Len(requests) >= 3
    /\ InFlight = 1

\* C16: every provider request of processPayment, processRefund and
\* capturePayment is sent with a timeout configured.
C16_EveryCallHasTimeout ==
    \A i \in 1..Len(requests) : Truthy(requests[i].timeout)

\* C17: once the caller's deadline has elapsed during an operation, the
\* operation sends no further provider request and ends by throwing a
\* TimeoutError with the record still pending.
C17_DeadlineStopsOperation ==
    [][ (deadlineElapsed /\ ~Finished)
        => /\ requests' = requests
           /\ Finished' => /\ Thrown'
                           /\ Get(result'.thrown, "name") = Str("TimeoutError")
                           /\ IsObject(transaction')
                                  => transaction'.status = "pending" ]_vars

\* C18: a processRefund(transactionId, amount) that the provider accepts makes
\* exactly one provider call and returns a completed record of type refund
\* with originalTransactionId = transactionId and amount = amount.
C18_SuccessfulRefundRecord ==
    ( /\ opType = "refund"
      /\ Finished
      /\ args.amount # Undefined
      /\ IsAccepted(outcomes[1]) )
    => /\ Returned
       /\ result.returned.status = "completed"
       /\ result.returned.type = "refund"
       /\ result.returned.originalTransactionId = Str(args.transactionId)
       /\ result.returned.amount = args.amount
       /\ Len(requests) = 1

\* C19: a record has a providerTransactionId only when its status is
\* completed, and an error only when its status is failed.
C19_OptionalFieldsMatchStatus ==
    IsObject(transaction)
    => /\ Truthy(transaction.providerTransactionId)
              => transaction.status = "completed"
       /\ transaction.error # Undefined => transaction.status = "failed"

C19_Witness ==
    /\ opType = "payment"
    /\ Finished
    /\ transaction.status = "failed"
    /\ IsObject(transaction.error)
    /\ IsTransientFailure(outcomes[1])

\* C20: the logger receives exactly one event carrying the record's id for
\* the creation of each record and exactly one for its transition to
\* completed or failed, and none of the latter while it is pending.
C20_OneAuditEventPerTransition ==
    IsObject(transaction)
    => /\ Cardinality(CreatedEvents(transaction.id)) = 1
       /\ Cardinality(TerminalEvents(transaction.id))
              = (IF transaction.status \in TerminalStatuses THEN 1 ELSE 0)

---------------------------------------------------------------------------
(* processPayment under a provider that answers every call *)

\* the steps of processPayment alone
LiveNext ==
    \/ \E a \in Amounts, c \in Currencies : processPayment(a, c)
    \/ \E o \in PaymentOutcomes : FirstCallSettles(o)
    \/ \E o \in PaymentOutcomes : RetryCallResolves(o)
    \/ \E o \in PaymentOutcomes : RetryCallRejects(o)

\* every provider call that was sent settles: the awaited post resolves or
\* rejects
EveryCallSettles ==
    /\ WF_vars(\E o \in PaymentOutcomes : FirstCallSettles(o))
    /\ WF_vars(\E o \in PaymentOutcomes :
                   RetryCallResolves(o) \/ RetryCallRejects(o))

LiveSpec == Init /\ [][LiveNext]_vars /\ EveryCallSettles

C27_SuppliedAmountIsUsed ==
    opType \in {"refund", "capture"}
    => /\ \A i \in 1..Len(requests) :
              requests[i].body.amount =
                  (IF args.amount = Undefined THEN Undefined
                   ELSE NumberToString(args.amount))
       /\ (Returned /\ args.amount # Undefined)
              => result.returned.amount = args.amount

---------------------------------------------------------------------------
(* processPayment's amount conversions for amounts with a fraction          *)
(*                                                                          *)
(* A JavaScript number with at most two decimal places is held as its       *)
(* count of hundredths h: the double nearest to h/100.  Its toString() is   *)
(* the shortest decimal that reads back to the same double, which for these *)
(* magnitudes is the decimal h/100 itself; Number(string) is the double     *)
(* nearest to the decimal the string denotes.  new Decimal(number) parses   *)
(* number.toString(); toNumber() is Number(toString()).                     *)

\* largest amount tried, in hundredths
MaxHundredths == 2000

MoneyAmounts == (0 - MaxHundredths)..MaxHundredths

PaymentIdle ==
    /\ retryAttempts = MAX_RETRY_ATTEMPTS /\ nextUuid = 1 /\ invocations = 0
    /\ pc = "idle" /\ opType = "none" /\ args = EmptyObject
    /\ transaction = Undefined /\ caught = Undefined /\ retryCount = 0
    /\ requests = <<>> /\ outcomes = <<>> /\ result = Undefined
    /\ log = <<>> /\ deadlineElapsed = FALSE

Abs(n) == IF n < 0 THEN 0 - n ELSE n

DigitChars(ds) == [i \in 1..Len(ds) |-> DigitChar(ds[i])]

CharDigit(c) == CHOOSE d \in 0..9 : DigitChar(d) = c

RECURSIVE StripLeadingZeros(_)
StripLeadingZeros(ds) ==
    IF Len(ds) > 0 /\ ds[1] = 0 THEN StripLeadingZeros(Tail(ds)) ELSE ds

RECURSIVE StripTrailingZeros(_)
StripTrailingZeros(ds) ==
    IF Len(ds) > 0 /\ ds[Len(ds)] = 0
    THEN StripTrailingZeros(SubSeq(ds, 1, Len(ds) - 1))
    ELSE ds

Zeros(n) == [i \in 1..n |-> 0]

\* Number.prototype.toString() of the number h/100
FractionToString(h) ==
    (IF h < 0 THEN <<"-">> ELSE <<>>)
    \o DigitChars(DigitsOf(Abs(h) \div 100))
    \o (LET f == StripTrailingZeros(<<(Abs(h) % 100) \div 10, Abs(h) % 10>>)
        IN IF f = <<>> THEN <<>> ELSE <<".">> \o DigitChars(f))

\* where the decimal point of a digit string is (its length + 1 if none)
PointOf(cs) ==
    IF \E i \in 1..Len(cs) : cs[i] = "."
    THEN CHOOSE i \in 1..Len(cs) : cs[i] = "."
    ELSE Len(cs) + 1

\* decimal.js: new Decimal(string): the sign s, the significant digits d
\* and the exponent e of the first of them (the value is d[1].d[2].. * 10^e)
ParseDecimal(cs) ==
    LET neg == Len(cs) > 0 /\ cs[1] = "-"
        body == IF neg THEN Tail(cs) ELSE cs
        p == PointOf(body)
        ip == [i \in 1..(p - 1) |-> CharDigit(body[i])]
        fp == [i \in 1..(Len(body) - p) |-> CharDigit(body[p + i])]
        all == ip \o fp
        sig == StripLeadingZeros(all)
    IN IF sig = <<>>
       THEN [s |-> IF neg THEN -1 ELSE 1, d |-> <<0>>, e |-> 0]
       ELSE [s |-> IF neg THEN -1 ELSE 1,
             d |-> StripTrailingZeros(sig),
             e |-> Len(ip) - 1 - (Len(all) - Len(sig))]

\* decimal.js: toString() in normal notation
FractionDecimalToString(dec) ==
    (IF dec.s < 0 /\ dec.d # <<0>> THEN <<"-">> ELSE <<>>)
    \o (IF dec.e < 0
        THEN <<"0", ".">> \o DigitChars(Zeros(0 - dec.e - 1) \o dec.d)
        ELSE IF Len(dec.d) <= dec.e + 1
        THEN DigitChars(dec.d \o Zeros(dec.e + 1 - Len(dec.d)))
        ELSE DigitChars(SubSeq(dec.d, 1, dec.e + 1)) \o <<".">>
             \o DigitChars(SubSeq(dec.d, dec.e + 2, Len(dec.d))))

\* Number(string) of a decimal string with at most two decimal places, as
\* hundredths
StringToFraction(cs) ==
    LET neg == Len(cs) > 0 /\ cs[1] = "-"
        body == IF neg THEN Tail(cs) ELSE cs
        p == PointOf(body)
        ip == [i \in 1..(p - 1) |-> CharDigit(body[i])]
        fp == [i \in 1..(Len(body) - p) |-> CharDigit(body[p + i])]
        h == 100 * ValueOf(ip)
             + ValueOf(SubSeq(fp \o <<0, 0>>, 1, 2))
    IN IF neg THEN 0 - h ELSE h

\* mutant of FractionDecimalToNumber: the record keeps the integer part only
FractionDecimalToNumber_Truncated(dec) ==
    100 * (StringToFraction(FractionDecimalToString(dec)) \div 100)

\* decimal.js: toNumber()
FractionDecimalToNumber(dec) ==
    StringToFraction(FractionDecimalToString(dec))

\* const decimalAmount = new Decimal(amount)
FractionDecimal(h) == ParseDecimal(FractionToString(h))

MoneyInit ==
    /\ moneyAmount \in MoneyAmounts
    /\ moneyWire = Undefined
    /\ moneyStored = Undefined

\* processPayment's handling of its amount argument: the record's amount is
\* decimalAmount.toNumber(), the request's amount is decimalAmount.toString()
ConvertAmount ==
    /\ moneyWire = Undefined
    /\ moneyStored' = FractionDecimalToNumber(FractionDecimal(moneyAmount))
    /\ moneyWire' = Chars(FractionDecimalToString(FractionDecimal(moneyAmount)))
    /\ UNCHANGED moneyAmount
    /\ UNCHANGED exceptMoney

MoneyNext == ConvertAmount

\* processPayment's amount conversions alone: the other components stay as they are
InitMoney ==
    /\ MoneyInit /\ PaymentIdle /\ CardIdle /\ LogIdle /\ ControllerIdle
    /\ LendingIdle /\ AuthIdle /\ HookIdle

SpecMoney == InitMoney /\ [][MoneyNext]_vars

\* the decimal value a decimal string denotes, in hundredths
DecimalValue(cs) ==
    LET neg == Len(cs) > 0 /\ cs[1] = "-"
        body == IF neg THEN Tail(cs) ELSE cs
        p == PointOf(body)
        units == ValueOf([i \in 1..(p - 1) |-> CharDigit(body[i])])
        tenths == IF Len(body) >= p + 1 THEN CharDigit(body[p + 1]) ELSE 0
        hundredths == IF Len(body) >= p + 2 THEN CharDigit(body[p + 2]) ELSE 0
    IN (IF neg THEN -1 ELSE 1) * (100 * units + 10 * tenths + hundredths)

---------------------------------------------------------------------------
(* CreditCardValidator (validate, detectCardType, isNumeric,                *)
(* maskCardNumber) and maskCreditCardNumber of shared-components            *)
(*                                                                          *)
(* A card number is a string held as its sequence of characters.  The two   *)
(* masking functions are applied to a pair of card numbers, so that what    *)
(* their output depends on can be compared between the two.                 *)

Digits == {"0", "1", "2", "3", "4", "5", "6", "7", "8", "9"}

\* lengths of the numbers tried: too short to mask, shorter than a card
\* number, the card lengths, longer than a card number
CardLengths == {3, 12, 13, 15, 16, 20}
LeadingDigits == {<<"4">>, <<"3", "7">>}
LastFours == {<<"1", "1", "1", "1">>, <<"4", "2", "4", "2">>}

CardNumber(lead, len, lastFour) ==
    [i \in 1..len |->
        IF i > len - 4 THEN lastFour[i - (len - 4)]
        ELSE IF i <= Len(lead) THEN lead[i]
        ELSE "0"]

RECURSIVE WithSpaces(_)
\* the number as it is printed on a card: groups of four
WithSpaces(cs) ==
    IF Len(cs) <= 4 THEN cs
    ELSE SubSeq(cs, 1, 4) \o <<" ">> \o WithSpaces(SubSeq(cs, 5, Len(cs)))

CardNumbers ==
    {CardNumber(l, n, f) : l \in LeadingDigits, n \in CardLengths,
                           f \in LastFours}
    \cup {WithSpaces(CardNumber(l, 16, f)) : l \in LeadingDigits,
                                             f \in LastFours}

\* the cvv strings tried: absent, three digits, four digits, not numeric
Cvvs == {<<>>, <<"1", "2", "3">>, <<"1", "2", "3", "4">>, <<"1", "2", "a">>}
\* new Date(): the current year and month
Now == [year |-> 2026, month |-> 11]
ExpiryMonths == {0, 5, 12}
ExpiryYears == {Now.year - 1, Now.year, Now.year + 4}

IsSpace(c) == c = " "
IsDigit(c) == c \in Digits
NotSpace(c) == ~IsSpace(c)

\* s.replace(/\s+/g, '')
RemoveSpaces(cs) == SelectSeq(cs, NotSpace)
\* s.replace(/\D/g, '')
RemoveNonDigits(cs) == SelectSeq(cs, IsDigit)
\* s.trim()
RECURSIVE Trim(_)
Trim(cs) ==
    IF Len(cs) > 0 /\ IsSpace(cs[1]) THEN Trim(Tail(cs))
    ELSE IF Len(cs) > 0 /\ IsSpace(cs[Len(cs)])
    THEN Trim(SubSeq(cs, 1, Len(cs) - 1))
    ELSE cs
\* s.slice(-4)
SliceLastFour(cs) ==
    IF Len(cs) <= 4 THEN cs ELSE SubSeq(cs, Len(cs) - 3, Len(cs))
\* c.repeat(n), for n >= 0
Repeat(c, n) == [i \in 1..n |-> c]
RangeError ==
    [name |-> Str("RangeError"), message |-> Str("Invalid count value")]
\* s.replace(/(.{4})/g, '$1 ')
RECURSIVE SpaceAfterEachFour(_)
SpaceAfterEachFour(cs) ==
    IF Len(cs) < 4 THEN cs
    ELSE SubSeq(cs, 1, 4) \o <<" ">>
         \o SpaceAfterEachFour(SubSeq(cs, 5, Len(cs)))

\* /^\d+$/.test(value.replace(/\s/g, ''))
isNumeric(value) ==
    /\ RemoveSpaces(value) # <<>>
    /\ \A i \in 1..Len(RemoveSpaces(value)) : IsDigit(RemoveSpaces(value)[i])

\* the number the first n characters of a digit string denote
LeadingValue(cs, n) == ValueOf([i \in 1..n |-> CharDigit(cs[i])])

detectCardType(cardNumber) ==
    LET cleanNumber == RemoveSpaces(cardNumber)
        digits == isNumeric(cleanNumber)
        len == Len(cleanNumber)
    IN IF digits /\ len \in {13, 16} /\ cleanNumber[1] = "4" THEN "visa"
       ELSE IF /\ digits /\ len = 16
               /\ \/ LeadingValue(cleanNumber, 2) \in 51..55
                  \/ LeadingValue(cleanNumber, 4) \in 2221..2720
       THEN "mastercard"
       ELSE IF digits /\ len = 15 /\ LeadingValue(cleanNumber, 2) \in {34, 37}
       THEN "amex"
       ELSE IF /\ digits /\ len = 16
               /\ \/ LeadingValue(cleanNumber, 4) = 6011
                  \/ LeadingValue(cleanNumber, 2) = 65
       THEN "discover"
       ELSE "unknown"

\* the errors validate collects, in order
ValidationErrors(card) ==
    (IF Trim(card.number) = <<>> THEN <<"Card number is required">>
     ELSE IF ~isNumeric(RemoveSpaces(card.number))
     THEN <<"Card number must contain only digits">>
     ELSE <<>>)
    \o (IF card.expiryMonth = 0 \/ card.expiryMonth < 1
           \/ card.expiryMonth > 12
        THEN <<"Invalid expiry month">> ELSE <<>>)
    \o (IF card.expiryYear = 0 \/ card.expiryYear < Now.year
        THEN <<"Card has expired">>
        ELSE IF card.expiryYear = Now.year /\ card.expiryMonth < Now.month
        THEN <<"Card has expired">>
        ELSE <<>>)
    \o (IF Trim(card.cvv) = <<>> THEN <<"CVV is required">>
        ELSE IF ~isNumeric(card.cvv) THEN <<"CVV must contain only digits">>
        ELSE IF detectCardType(card.number) = "amex" /\ Len(card.cvv) # 4
        THEN <<"American Express cards require a 4-digit CVV">>
        ELSE IF detectCardType(card.number) # "amex" /\ Len(card.cvv) # 3
        THEN <<"CVV must be 3 digits">>
        ELSE <<>>)

\* an array value
Array(xs) == [array |-> xs]

\* logger.error('Credit card validation failed', { cardNumber, errors })
ValidationFailedLog(card, errors) ==
    <<LoggerEvent("error", "Credit card validation failed",
                  [cardNumber |-> Chars(card.number),
                   errors |-> Array(errors)])>>

\* CreditCardValidator.maskCardNumber: the string returned, or the RangeError
\* of '*'.repeat with a negative count
MaskCardNumber(cardNumber) ==
    LET cleanNumber == RemoveSpaces(cardNumber)
        lastFourDigits == SliceLastFour(cleanNumber)
    IN IF Len(cleanNumber) - 4 < 0
       THEN [thrown |-> RangeError]
       ELSE [returned |->
                Chars(Repeat("*", Len(cleanNumber) - 4) \o lastFourDigits)]

\* maskCreditCardNumber of shared-components (its bullet character is
\* written * here)
MaskCreditCardNumber(cardNumber) ==
    LET cleaned == RemoveNonDigits(cardNumber)
        lastFour == SliceLastFour(cleaned)
    IN IF Len(cleaned) < 13 \/ Len(cleaned) > 19
       THEN [returned |-> Chars(cardNumber)]
       ELSE [returned |->
                Chars(Trim(SpaceAfterEachFour(
                          Repeat("*", Len(cleaned) - 4) \o lastFour)))]

CardInit ==
    /\ cardNumbers \in CardNumbers \X CardNumbers
    /\ maskCalled = "none"
    /\ maskResults = <<>>
    /\ validated = Undefined
    /\ validationResult = Undefined
    /\ validatorLog = <<>>

NothingApplied == maskCalled = "none" /\ validated = Undefined

maskCardNumber ==
    /\ NothingApplied
    /\ maskCalled' = "maskCardNumber"
    /\ maskResults' = <<MaskCardNumber(cardNumbers[1]),
                        MaskCardNumber(cardNumbers[2])>>
    /\ UNCHANGED <<cardNumbers, validated, validationResult, validatorLog>>
    /\ UNCHANGED exceptCard

maskCreditCardNumber ==
    /\ NothingApplied
    /\ maskCalled' = "maskCreditCardNumber"
    /\ maskResults' = <<MaskCreditCardNumber(cardNumbers[1]),
                        MaskCreditCardNumber(cardNumbers[2])>>
    /\ UNCHANGED <<cardNumbers, validated, validationResult, validatorLog>>
    /\ UNCHANGED exceptCard

\* CreditCardValidator.validate(card), for the first of the two numbers
validate(expiryMonth, expiryYear, cvv) ==
    /\ NothingApplied
    /\ validated' = [number |-> cardNumbers[1], expiryMonth |-> expiryMonth,
                     expiryYear |-> expiryYear, cvv |-> cvv]
    /\ LET errors == ValidationErrors(validated') IN
        IF Len(errors) > 0
        THEN /\ validatorLog' = ValidationFailedLog(validated', errors)
             /\ validationResult' =
                    [isValid |-> FALSE, errors |-> errors,
                     cardType |-> detectCardType(cardNumbers[1])]
        ELSE /\ validatorLog' = <<>>
             /\ validationResult' =
                    [isValid |-> TRUE,
                     cardType |-> detectCardType(cardNumbers[1])]
    /\ UNCHANGED <<cardNumbers, maskCalled, maskResults>>
    /\ UNCHANGED exceptCard

CardNext ==
    \/ maskCardNumber
    \/ maskCreditCardNumber
    \/ \E m \in ExpiryMonths, y \in ExpiryYears, c \in Cvvs : validate(m, y, c)

\* the card utilities alone: the other components stay as they are
InitCard ==
    /\ CardInit /\ PaymentIdle /\ MoneyIdle /\ LogIdle /\ ControllerIdle
    /\ LendingIdle /\ AuthIdle /\ HookIdle

SpecCard == InitCard /\ [][CardNext]_vars

\* a string that holds a whole card number: 13 to 19 digits
IsFullCardNumber(cs) ==
    /\ Len(RemoveNonDigits(cs)) \in 13..19
    /\ \A i \in 1..Len(cs) : IsDigit(cs[i]) \/ IsSpace(cs[i])

\* the strings of an event's payload
PayloadStrings(event) ==
    {event.meta[f].chars :
        f \in {g \in DOMAIN event.meta : "chars" \in DOMAIN event.meta[g]}}

\* C21: no log payload of the payment gateway holds a full card number or a
\* CVV; here, of what CreditCardValidator.validate writes to the logger.
C21_NoCardDataInLogs ==
    \A i \in 1..Len(validatorLog) :
        \A cs \in PayloadStrings(validatorLog[i]) :
            /\ ~IsFullCardNumber(cs)
            /\ validated.cvv # <<>> => cs # validated.cvv

\* C30: the masking functions never fail, and two card numbers with the
\* same number of digits and the same last four digits are masked to the
\* same output.
C30_MaskRevealsOnlyLastFour ==
    maskCalled # "none"
    => /\ \A i \in 1..2 : "returned" \in DOMAIN maskResults[i]
       /\ ( /\ Len(RemoveNonDigits(cardNumbers[1]))
                 = Len(RemoveNonDigits(cardNumbers[2]))
            /\ SliceLastFour(RemoveNonDigits(cardNumbers[1]))
                 = SliceLastFour(RemoveNonDigits(cardNumbers[2])) )
          => maskResults[1] = maskResults[2]

---------------------------------------------------------------------------
(* utils/logging: the log context kept in logger.defaultMeta, and the       *)
(* logger.level the PaymentProcessor constructor sets                       *)
(*                                                                          *)
(* Each request sets its correlation id, sets its user id, logs one event   *)
(* and resets the context; its handler is suspended between the steps, so   *)
(* the steps of different requests interleave.  winston merges              *)
(* logger.defaultMeta into an event when the event is logged.               *)

\* requests handled at the same time
NumRequests == 2
\* PaymentProcessor instances constructed
MaxProcessors == 2

Requests == 1..NumRequests

CorrelationIdOf(r) == Template("corr-", Num(r))
UserIdOf(r) == Template("user-", Num(r))

\* options.logLevel: absent, or a level
LogLevelOptions == {Undefined, Str("debug"), Str("error")}

\* defaultMeta: { service: 'payment-gateway' }
ServiceMeta == [service |-> Str("payment-gateway")]

\* { ...obj, [key]: value }
Spread(obj, key, value) ==
    [f \in DOMAIN obj \cup {key} |-> IF f = key THEN value ELSE obj[f]]

LogInit ==
    /\ defaultMeta = ServiceMeta
    /\ requestPc = [r \in Requests |-> "start"]
    /\ emitted = <<>>
    /\ loggerLevel = Str("info")
    /\ processors = <<>>

addCorrelationId(r) ==
    /\ requestPc[r] = "start"
    /\ defaultMeta' = Spread(defaultMeta, "correlationId", CorrelationIdOf(r))
    /\ requestPc' = [requestPc EXCEPT ![r] = "hasCorrelationId"]
    /\ UNCHANGED <<emitted, loggerLevel, processors>>
    /\ UNCHANGED exceptLog

addUserId(r) ==
    /\ requestPc[r] = "hasCorrelationId"
    /\ defaultMeta' = Spread(defaultMeta, "userId", UserIdOf(r))
    /\ requestPc' = [requestPc EXCEPT ![r] = "hasUserId"]
    /\ UNCHANGED <<emitted, loggerLevel, processors>>
    /\ UNCHANGED exceptLog

\* logger.info(...) of a request: the event carries the defaultMeta of the
\* moment
LogEvent(r) ==
    /\ requestPc[r] = "hasUserId"
    /\ emitted' = Append(emitted, [request |-> r, meta |-> defaultMeta])
    /\ requestPc' = [requestPc EXCEPT ![r] = "logged"]
    /\ UNCHANGED <<defaultMeta, loggerLevel, processors>>
    /\ UNCHANGED exceptLog

resetLogContext(r) ==
    /\ requestPc[r] = "logged"
    /\ defaultMeta' = ServiceMeta
    /\ requestPc' = [requestPc EXCEPT ![r] = "done"]
    /\ UNCHANGED <<emitted, loggerLevel, processors>>
    /\ UNCHANGED exceptLog

\* new PaymentProcessor({ logLevel }): if (options.logLevel) logger.level =
\* options.logLevel.  The instance is recorded with the level its logging
\* has once it is constructed.
ConstructProcessor(logLevel) ==
    /\ Len(processors) < MaxProcessors
    /\ loggerLevel' = IF Truthy(logLevel) THEN logLevel ELSE loggerLevel
    /\ processors' = Append(processors, [level |-> loggerLevel'])
    /\ UNCHANGED <<defaultMeta, requestPc, emitted>>
    /\ UNCHANGED exceptLog

LogNext ==
    \/ \E r \in Requests : addCorrelationId(r)
    \/ \E r \in Requests : addUserId(r)
    \/ \E r \in Requests : LogEvent(r)
    \/ \E r \in Requests : resetLogContext(r)
    \/ \E l \in LogLevelOptions : ConstructProcessor(l)

\* the log context and the processor constructor alone: the other components stay as they are
InitLog ==
    /\ LogInit /\ PaymentIdle /\ MoneyIdle /\ CardIdle /\ ControllerIdle
    /\ LendingIdle /\ AuthIdle /\ HookIdle

SpecLog == InitLog /\ [][LogNext]_vars

\* C22: under every interleaving of the requests, every log event carries
\* the correlation id and the user id of the request that emitted it, and
\* constructing a PaymentProcessor leaves the log level of the instances
\* constructed before as it was.
C22_NoSharedMutableState ==
    /\ \A i \in 1..Len(emitted) :
           /\ Get(emitted[i].meta, "correlationId")
                  = CorrelationIdOf(emitted[i].request)
           /\ Get(emitted[i].meta, "userId") = UserIdOf(emitted[i].request)
    /\ \A i \in 1..Len(processors) : processors[i].level = loggerLevel

---------------------------------------------------------------------------
(* TransactionController: createTransaction, getTransaction,                *)
(* refundTransaction                                                        *)
(*                                                                          *)
(* Requests are handled one after the other.  The PaymentProcessor behind   *)
(* the controller is seen from outside: a call on it is recorded, and it    *)
(* ends by returning a record or by throwing.                               *)

\* requests sent to the controller
MaxHttpRequests == 2

\* req.headers['user-id']: no header, an empty one, a user
UserIdHeaders == {Undefined, Str(""), Str("user_1")}

\* req.body and req.params of the requests tried
RequestBody ==
    [amount |-> Num(1000), currency |-> Str("USD"),
     paymentMethod |-> [card |-> Str("tok_visa")], metadata |-> EmptyObject]
RequestParams == [id |-> Str("txn_1")]

HttpRequest(endpoint, userId) ==
    [endpoint |-> endpoint, userId |-> userId, body |-> RequestBody,
     params |-> RequestParams]

\* how a call on the processor ends for the controller
ProcessorResults ==
    {[returned |-> [id |-> Uuid(1), status |-> "completed"]],
     [thrown |-> PaymentError(Str("Card declined"), Str("card_declined"))],
     [thrown |-> [name |-> Str("Error"), message |-> Str("Network error")]]}

IsPaymentError(error) == Get(error, "name") = Str("PaymentError")

\* res.status(code).json(body)
JsonResponse(status, body) == [status |-> status, body |-> body]

AuthRequiredResponse ==
    JsonResponse(401, [success |-> FALSE,
                       error |-> [message |-> Str("Authentication required"),
                                  code |-> Str("auth_required")]])

\* the response createTransaction writes once processPayment has ended
CreateResponse(outcome) ==
    IF "returned" \in DOMAIN outcome
    THEN JsonResponse(201, [success |-> TRUE, data |-> outcome.returned])
    ELSE IF IsPaymentError(outcome.thrown)
    THEN JsonResponse(400, [success |-> FALSE,
                            error |-> [message |-> outcome.thrown.message,
                                       code |-> outcome.thrown.code]])
    ELSE JsonResponse(500,
             [success |-> FALSE,
              error |-> [message |-> Str("An unexpected error occurred"),
                         code |-> Str("internal_error")]])

\* what createTransaction logs once processPayment has ended
CreateOutcomeLog(req, outcome) ==
    IF "returned" \in DOMAIN outcome THEN <<>>
    ELSE IF IsPaymentError(outcome.thrown)
    THEN <<LoggerEvent("error", "Payment error",
                       [userId |-> req.userId,
                        error |-> outcome.thrown.message,
                        code |-> outcome.thrown.code])>>
    ELSE <<LoggerEvent("error", "Unexpected error processing payment",
                       [userId |-> req.userId, amount |-> req.body.amount,
                        currency |-> req.body.currency,
                        error |-> outcome.thrown.message])>>

\* the simulated database record of getTransaction
FetchedTransaction(id) ==
    [id |-> id, amount |-> Num(1000), currency |-> Str("USD"),
     status |-> "completed", type |-> "payment"]

\* the response refundTransaction writes once processRefund has ended
RefundResponse(outcome) ==
    IF "returned" \in DOMAIN outcome
    THEN JsonResponse(200, [success |-> TRUE, data |-> outcome.returned])
    ELSE JsonResponse(400, [success |-> FALSE,
                            message |-> outcome.thrown.message])

ControllerInit ==
    /\ httpRequest = Undefined
    /\ handlerPc = "idle"
    /\ httpResponse = Undefined
    /\ processorCalls = <<>>
    /\ served = <<>>
    /\ controllerLog = <<>>

CanServe == handlerPc = "idle" /\ Len(served) < MaxHttpRequests

\* the handler has written its response
Respond(req, response) ==
    /\ httpResponse' = response
    /\ served' = Append(served, [request |-> req, response |-> response])
    /\ handlerPc' = "idle"

\* createTransaction up to its await: processPayment is called
createTransaction(userId) ==
    /\ CanServe
    /\ httpRequest' = HttpRequest("createTransaction", userId)
    /\ controllerLog' = controllerLog
           \o <<LoggerEvent("info", "Creating new transaction",
                            [userId |-> userId,
                             amount |-> RequestBody.amount,
                             currency |-> RequestBody.currency])>>
    /\ processorCalls' = Append(processorCalls,
           [request |-> Len(served) + 1, method |-> "processPayment",
            amount |-> RequestBody.amount, currency |-> RequestBody.currency,
            paymentMethod |-> RequestBody.paymentMethod,
            metadata |-> Spread(RequestBody.metadata, "userId", userId)])
    /\ handlerPc' = "await_processPayment"
    /\ httpResponse' = Undefined
    /\ UNCHANGED served
    /\ UNCHANGED exceptController

\* processPayment has ended: 201, or 400 for a PaymentError, or 500
PaymentEnds(outcome) ==
    /\ handlerPc = "await_processPayment"
    /\ controllerLog' = controllerLog \o CreateOutcomeLog(httpRequest, outcome)
    /\ Respond(httpRequest, CreateResponse(outcome))
    /\ UNCHANGED <<httpRequest, processorCalls>>
    /\ UNCHANGED exceptController

getTransaction(userId) ==
    /\ CanServe
    /\ httpRequest' = HttpRequest("getTransaction", userId)
    /\ Respond(httpRequest',
               JsonResponse(200, [success |-> TRUE,
                                  data |-> FetchedTransaction(RequestParams.id)]))
    /\ UNCHANGED <<processorCalls, controllerLog>>
    /\ UNCHANGED exceptController

\* refundTransaction up to its return or its await
refundTransaction(userId) ==
    /\ CanServe
    /\ httpRequest' = HttpRequest("refundTransaction", userId)
    /\ IF ~Truthy(userId)
       THEN /\ Respond(httpRequest', AuthRequiredResponse)
            /\ UNCHANGED <<processorCalls, controllerLog>>
       ELSE /\ controllerLog' = controllerLog
                   \o <<LoggerEvent("info", "Processing refund",
                                    [transactionId |-> RequestParams.id,
                                     amount |-> RequestBody.amount,
                                     userId |-> userId])>>
            /\ processorCalls' = Append(processorCalls,
                   [request |-> Len(served) + 1, method |-> "processRefund",
                    transactionId |-> RequestParams.id,
                    amount |-> RequestBody.amount])
            /\ handlerPc' = "await_processRefund"
            /\ httpResponse' = Undefined
            /\ UNCHANGED served
    /\ UNCHANGED exceptController

\* processRefund has ended: 200, or 400 for any error
RefundEnds(outcome) ==
    /\ handlerPc = "await_processRefund"
    /\ controllerLog' = controllerLog
           \o (IF "thrown" \in DOMAIN outcome
               THEN <<LoggerEvent("error", "Refund error",
                                  [transactionId |-> RequestParams.id,
                                   userId |-> httpRequest.userId,
                                   error |-> outcome.thrown.message])>>
               ELSE <<>>)
    /\ Respond(httpRequest, RefundResponse(outcome))
    /\ UNCHANGED <<httpRequest, processorCalls>>
    /\ UNCHANGED exceptController

ControllerNext ==
    \/ \E u \in UserIdHeaders : createTransaction(u)
    \/ \E o \in ProcessorResults : PaymentEnds(o)
    \/ \E u \in UserIdHeaders : getTransaction(u)
    \/ \E u \in UserIdHeaders : refundTransaction(u)
    \/ \E o \in ProcessorResults : RefundEnds(o)

\* the TransactionController alone: the other components stay as they are
InitController ==
    /\ ControllerInit /\ PaymentIdle /\ MoneyIdle /\ CardIdle /\ LogIdle
    /\ LendingIdle /\ AuthIdle /\ HookIdle

SpecController == InitController /\ [][ControllerNext]_vars

\* C24: a request without a user-id, to whichever endpoint, is answered 401
\* auth_required and causes no call on the payment processor.
C24_EveryEndpointAuthenticates ==
    /\ \A i \in 1..Len(served) :
           ~Truthy(served[i].request.userId)
           => /\ served[i].response.status = 401
              /\ Get(Get(served[i].response.body, "error"), "code")
                     = Str("auth_required")
    /\ \A k \in 1..Len(processorCalls) :
           LET i == processorCalls[k].request
           IN Truthy(IF i <= Len(served) THEN served[i].request.userId
                     ELSE httpRequest.userId)

---------------------------------------------------------------------------
(* lending-engine: LoanApplicationService and DecisionLogger               *)
(*                                                                          *)
(* Amounts are whole currency units, interest rates are kept as the         *)
(* decimal literals of the code, LocalDateTime.now() is the number of the   *)
(* call.  The score of RiskAssessmentEngine.calculateRiskScore is an input  *)
(* of processApplication.                                                   *)

\* calls made on the service
MaxLoanCalls == 2

\* application.amountRequested, a non-positive one included
RequestedAmounts == {0, 10000, 30000}
\* application.income: null or an amount
Incomes == {Undefined, Num(40000)}
\* scores on both sides of each threshold of processApplication
RiskScores == {760, 710, 660, 620, 500}
RequestedTerms == {36}
ReviewerIds == {"reviewer_1"}
ReviewRates == {"0.0599"}

LoanApplication(id, amountRequested, requestedTermMonths, income, status) ==
    [id |-> id, amountRequested |-> amountRequested,
     requestedTermMonths |-> requestedTermMonths, income |-> income,
     status |-> status]

LoanDecision(id, approved, amount, rate, term, codes, reviewer, now) ==
    [applicationId |-> id, approved |-> approved,
     approvedAmount |-> amount, interestRate |-> rate,
     termMonths |-> term, reasonCodes |-> codes,
     reviewerId |-> reviewer, timestamp |-> now]

\* BigDecimal.multiply by 0.8 and by 0.2
TimesPointEight(amount) == (amount * 8) \div 10
TimesPointTwo(amount) == (amount * 2) \div 10

MinOf(a, b) == IF a <= b THEN a ELSE b

\* the `when` of processApplication
DecideApplication(application, score, now) ==
    IF score >= 750
    THEN LoanDecision(application.id, TRUE, application.amountRequested,
                      "0.0499", application.requestedTermMonths,
                      <<"EXCELLENT_CREDIT">>, Undefined, now)
    ELSE IF score >= 700
    THEN LoanDecision(application.id, TRUE, application.amountRequested,
                      "0.0699", application.requestedTermMonths,
                      <<"GOOD_CREDIT">>, Undefined, now)
    ELSE IF score >= 650
    THEN LoanDecision(application.id, TRUE,
                      TimesPointEight(application.amountRequested),
                      "0.0899", application.requestedTermMonths,
                      <<"FAIR_CREDIT", "REDUCED_AMOUNT">>, Undefined, now)
    ELSE IF score >= 600
    THEN LoanDecision(application.id, TRUE,
                      MinOf(application.amountRequested,
                            IF application.income # Undefined
                            THEN TimesPointTwo(application.income.num)
                            ELSE 5000),
                      "0.1299", application.requestedTermMonths,
                      <<"FAIR_CREDIT", "INCOME_LIMITED">>, Undefined, now)
    ELSE LoanDecision(application.id, FALSE, 0, "0", 0,
                      <<"INSUFFICIENT_CREDIT", "HIGH_RISK">>, Undefined, now)

\* updateApplicationStatus
UpdateApplicationStatus(application, newStatus) ==
    [application EXCEPT !.status = newStatus]

\* value.toString()
Text(v) == [text |-> v]

\* DecisionLogger.logDecision: the entry written to LOAN_DECISION_AUDIT
LogEntry(decision) ==
    [timestamp |-> Text(decision.timestamp),
     applicationId |-> Text(decision.applicationId),
     approved |-> decision.approved,
     approvedAmount |-> Text(decision.approvedAmount),
     interestRate |-> Text(decision.interestRate),
     termMonths |-> decision.termMonths,
     reasonCodes |-> [joined |-> decision.reasonCodes, separator |-> ","],
     reviewerId |-> IF decision.reviewerId # Undefined
                    THEN decision.reviewerId ELSE Str("SYSTEM")]

IllegalArgumentException ==
    [name |-> Str("IllegalArgumentException"),
     message |-> Str("Loan amount must be positive")]

LendingInit ==
    /\ decisions = <<>>
    /\ auditTrail = <<>>
    /\ applications = <<>>

CanCallService == Len(decisions) < MaxLoanCalls

\* LoanApplicationService.processApplication
processApplication(amountRequested, term, income, score) ==
    /\ CanCallService
    /\ LET now == Len(decisions) + 1
           application == LoanApplication(Uuid(now), amountRequested, term,
                                          income, "SUBMITTED")
           decision == DecideApplication(application, score, now)
       IN IF amountRequested <= 0
          THEN /\ decisions' = Append(decisions,
                                      [thrown |-> IllegalArgumentException])
               /\ applications' = Append(applications, application)
          ELSE /\ decisions' = Append(decisions, [returned |-> decision])
               /\ applications' = Append(applications,
                      UpdateApplicationStatus(application,
                          IF decision.approved THEN "APPROVED"
                          ELSE "REJECTED"))
    /\ UNCHANGED auditTrail
    /\ UNCHANGED exceptLending

\* LoanApplicationService.approveLoanInReview
approveLoanInReview(approvedAmount, interestRate, termMonths, reviewerId) ==
    /\ CanCallService
    /\ LET now == Len(decisions) + 1
           application == LoanApplication(Uuid(now), approvedAmount,
                                          termMonths, Undefined, "IN_REVIEW")
           decision == LoanDecision(Uuid(now), TRUE, approvedAmount,
                                    interestRate, termMonths,
                                    <<"MANUAL_APPROVAL">>, Str(reviewerId),
                                    now)
       IN /\ applications' = Append(applications,
                 UpdateApplicationStatus(application, "APPROVED"))
          /\ auditTrail' = Append(auditTrail, LogEntry(decision))
          /\ decisions' = Append(decisions, [returned |-> decision])
    /\ UNCHANGED exceptLending

LendingNext ==
    \/ \E a \in RequestedAmounts, t \in RequestedTerms, i \in Incomes,
          s \in RiskScores : processApplication(a, t, i, s)
    \/ \E a \in RequestedAmounts, r \in ReviewRates, t \in RequestedTerms,
          v \in ReviewerIds : approveLoanInReview(a, r, t, v)

\* the LoanApplicationService alone: the other components stay as they are
InitLending ==
    /\ LendingInit /\ PaymentIdle /\ MoneyIdle /\ CardIdle /\ LogIdle
    /\ ControllerIdle /\ AuthIdle /\ HookIdle

SpecLending == InitLending /\ [][LendingNext]_vars

\* C25: every loan decision the service has returned, from processApplication
\* as from approveLoanInReview, has its entry in the audit trail written by
\* DecisionLogger.logDecision.
C25_EveryDecisionAudited ==
    \A i \in 1..Len(decisions) :
        "returned" \in DOMAIN decisions[i]
        => \E j \in 1..Len(auditTrail) :
               auditTrail[j] = LogEntry(decisions[i].returned)

---------------------------------------------------------------------------
(* shared-components: the useAuth hook                                      *)
(*                                                                          *)
(* Every run of initAuth, login and logout is a process of authPc with the  *)
(* place it is suspended at (an awaited fetch).  The code between two       *)
(* awaits runs as one action; an awaited response.json() is read in the     *)
(* action of the fetch it belongs to, as nothing of the hook is read or     *)
(* written between the two.  null is written Undefined.                     *)

\* login and logout calls made on the hook
MaxAuthCalls == 2

\* the token a login response carries
Token(n) == [token |-> n]

\* what localStorage holds under the storage key when the hook mounts
StoredTokens == {Undefined, Token(0)}

\* the user object GET /me answers with
UserData == [id |-> Str("user_1"), email |-> Str("user@example.com")]

\* how GET /me ends: ok with the user, not ok, fetch or json() rejected
MeResponses == {"ok", "not_ok", "error"}
\* how POST /login ends: ok with a token, ok without one, not ok, rejected
LoginResponses == {"ok", "ok_no_token", "not_ok", "error"}
\* how POST /logout ends; logout ignores it
LogoutResponses == {"ok", "error"}

\* initAuth and the calls
AuthProcesses == 1..(MaxAuthCalls + 1)

AuthProcess(op, at, token) == [op |-> op, at |-> at, token |-> token]

AuthInit ==
    /\ user = Undefined
    /\ storedToken \in StoredTokens
    /\ isLoading = TRUE
    /\ authError = Undefined
    /\ isMounted = TRUE
    /\ authPc = <<AuthProcess("initAuth", "start", Undefined)>>
    /\ authCalls = 0

\* fetchCurrentUser has produced userData for process p: what its caller does
\* with it.  initAuth sets the state only while mounted.
AfterFetchCurrentUser(p, userData) ==
    /\ authPc' = [authPc EXCEPT ![p].at = "done"]
    /\ IF authPc[p].op = "initAuth" /\ ~isMounted
       THEN UNCHANGED <<user, isLoading>>
       ELSE user' = userData /\ isLoading' = FALSE

\* the mount effect: initAuth up to the fetch of fetchCurrentUser
initAuth ==
    /\ authPc[1].at = "start"
    /\ IF ~Truthy(storedToken)
       THEN AfterFetchCurrentUser(1, Undefined)
       ELSE /\ authPc' = [authPc EXCEPT ![1].at = "me_inflight",
                                        ![1].token = storedToken]
            /\ isLoading' = TRUE
            /\ UNCHANGED user
    /\ UNCHANGED <<storedToken, authError, isMounted, authCalls>>
    /\ UNCHANGED exceptAuth

\* GET /me of process p has ended
MeResponds(p, response) ==
    /\ p <= Len(authPc)
    /\ authPc[p].at = "me_inflight"
    /\ IF response = "ok"
       THEN /\ AfterFetchCurrentUser(p, UserData)
            /\ UNCHANGED storedToken
       ELSE /\ storedToken' = Undefined
            /\ AfterFetchCurrentUser(p, Undefined)
    /\ UNCHANGED <<authError, isMounted, authCalls>>
    /\ UNCHANGED exceptAuth

\* login up to its fetch; the hook's functions exist once it has mounted
login ==
    /\ authPc[1].at # "start"
    /\ isMounted
    /\ authCalls < MaxAuthCalls
    /\ authCalls' = authCalls + 1
    /\ authPc' = Append(authPc, AuthProcess("login", "login_inflight", Undefined))
    /\ isLoading' = TRUE
    /\ authError' = Undefined
    /\ UNCHANGED <<user, storedToken, isMounted>>
    /\ UNCHANGED exceptAuth

\* POST /login of process p has ended
LoginResponds(p, response) ==
    /\ p <= Len(authPc)
    /\ authPc[p].at = "login_inflight"
    /\ IF response \in {"not_ok", "error"}
       THEN /\ authError' = [message |-> Str("Login failed")]
            /\ isLoading' = FALSE
            /\ authPc' = [authPc EXCEPT ![p].at = "done"]
            /\ UNCHANGED <<user, storedToken>>
       ELSE /\ storedToken' = IF response = "ok" THEN Token(p) ELSE Undefined
            /\ IF ~Truthy(storedToken')
               THEN AfterFetchCurrentUser(p, Undefined)
               ELSE /\ authPc' = [authPc EXCEPT ![p].at = "me_inflight",
                                                ![p].token = storedToken']
                    /\ UNCHANGED <<user, isLoading>>
            /\ UNCHANGED authError
    /\ UNCHANGED <<isMounted, authCalls>>
    /\ UNCHANGED exceptAuth

\* the finally block of logout
LogoutFinally ==
    /\ storedToken' = Undefined
    /\ user' = Undefined
    /\ isLoading' = FALSE

\* logout up to its fetch, or to its end when no token is stored
logout ==
    /\ authPc[1].at # "start"
    /\ isMounted
    /\ authCalls < MaxAuthCalls
    /\ authCalls' = authCalls + 1
    /\ IF Truthy(storedToken)
       THEN /\ authPc' = Append(authPc, AuthProcess("logout", "logout_inflight",
                                                    storedToken))
            /\ isLoading' = TRUE
            /\ UNCHANGED <<user, storedToken>>
       ELSE /\ authPc' = Append(authPc, AuthProcess("logout", "done", Undefined))
            /\ LogoutFinally
    /\ UNCHANGED <<authError, isMounted>>
    /\ UNCHANGED exceptAuth

\* POST /logout of process p has ended, either way
LogoutResponds(p, response) ==
    /\ p <= Len(authPc)
    /\ authPc[p].at = "logout_inflight"
    /\ authPc' = [authPc EXCEPT ![p].at = "done"]
    /\ LogoutFinally
    /\ UNCHANGED <<authError, isMounted, authCalls>>
    /\ UNCHANGED exceptAuth

\* the cleanup of the mount effect
Unmount ==
    /\ isMounted
    /\ isMounted' = FALSE
    /\ UNCHANGED <<user, storedToken, isLoading, authError, authPc, authCalls>>
    /\ UNCHANGED exceptAuth

AuthNext ==
    \/ initAuth
    \/ \E p \in AuthProcesses, r \in MeResponses : MeResponds(p, r)
    \/ login
    \/ \E p \in AuthProcesses, r \in LoginResponses : LoginResponds(p, r)
    \/ logout
    \/ \E p \in AuthProcesses, r \in LogoutResponses : LogoutResponds(p, r)
    \/ Unmount

\* the useAuth hook alone: the other components stay as they are
InitAuth ==
    /\ AuthInit /\ PaymentIdle /\ MoneyIdle /\ CardIdle /\ LogIdle
    /\ ControllerIdle /\ LendingIdle /\ HookIdle

SpecAuth == InitAuth /\ [][AuthNext]_vars

\* C28: whenever the hook's user is set (isAuthenticated), an auth token is
\* stored under the storage key, however logout interleaves with a
\* fetchCurrentUser in flight.
C28_UserImpliesToken ==
    Truthy(user) => storedToken # Undefined

---------------------------------------------------------------------------
(* shared-components: the useTransaction hook                               *)
(*                                                                          *)
(* A state update re-renders the hook.  Every render builds a new headers   *)
(* object, so fetchTransaction is a new function on every render and the    *)
(* polling effect, which depends on it, runs after every render; the state  *)
(* updates of one handler are taken as one render.  A timer is kept with    *)
(* the transaction its callback closed over.  All requests are for the same *)
(* transaction id; fetches counts those awaiting their response.            *)

\* poll requests issued by the timers
MaxPolls == 4

TransactionStatuses == {"pending", "completed", "failed"}

\* the body of GET /transactions/:id
TransactionData(status) == [id |-> Str("txn_1"), status |-> status]

\* how a fetch ends: ok with the transaction, or an error
FetchOutcomes ==
    {[ok |-> TRUE, data |-> TransactionData(s)] : s \in TransactionStatuses}
    \cup {[ok |-> FALSE,
           error |-> [message |-> Str("Failed to fetch transaction")]]}

\* the timers that can exist: every fetch causes at most two renders
TimerSlots == 1..(2 * MaxPolls + 2)

HookInit ==
    /\ hookTransaction = Undefined
    /\ hookIsLoading = FALSE
    /\ hookError = Undefined
    /\ intervals = <<>>
    /\ fetches = 0
    /\ pollsIssued = 0

IsPending(tx) == tx # Undefined /\ tx.status = "pending"

\* the polling effect, run for a render with transaction tx: a new interval
\* is set when tx is pending; no interval is ever cleared
PollingEffect(timers, tx) ==
    IF IsPending(tx) THEN Append(timers, [transaction |-> tx]) ELSE timers

\* fetchTransaction up to its await: setIsLoading(true), setError(null), the
\* request is sent; the hook re-renders if one of the two states changed
StartFetch ==
    /\ hookIsLoading' = TRUE
    /\ hookError' = Undefined
    /\ fetches' = fetches + 1
    /\ intervals' = IF ~hookIsLoading \/ hookError # Undefined
                    THEN PollingEffect(intervals, hookTransaction)
                    ELSE intervals
    /\ UNCHANGED hookTransaction

\* the component calls fetchTransaction(id) to load the transaction
fetchTransaction ==
    /\ hookTransaction = Undefined
    /\ fetches = 0
    /\ StartFetch
    /\ UNCHANGED pollsIssued
    /\ UNCHANGED exceptHook

\* a fetch ends: setTransaction(data) or setError(errorObj), then
\* setIsLoading(false); the hook re-renders
FetchResponds(outcome) ==
    /\ fetches > 0
    /\ fetches' = fetches - 1
    /\ hookIsLoading' = FALSE
    /\ IF outcome.ok
       THEN /\ hookTransaction' = outcome.data
            /\ UNCHANGED hookError
       ELSE /\ hookError' = outcome.error
            /\ UNCHANGED hookTransaction
    /\ intervals' = PollingEffect(intervals, hookTransaction')
    /\ UNCHANGED pollsIssued
    /\ UNCHANGED exceptHook

\* a timer fires: pollTransactionStatus tests the transaction it closed over
\* and calls fetchTransaction
Tick(i) ==
    /\ i <= Len(intervals)
    /\ pollsIssued < MaxPolls
    /\ IF IsPending(intervals[i].transaction)
       THEN /\ pollsIssued' = pollsIssued + 1
            /\ StartFetch
       ELSE UNCHANGED hookVars
    /\ UNCHANGED exceptHook

HookNext ==
    \/ fetchTransaction
    \/ \E o \in FetchOutcomes : FetchResponds(o)
    \/ \E i \in TimerSlots : Tick(i)

\* the useTransaction hook alone: the other components stay as they are
InitHook ==
    /\ HookInit /\ PaymentIdle /\ MoneyIdle /\ CardIdle /\ LogIdle
    /\ ControllerIdle /\ LendingIdle /\ AuthIdle

SpecHook == InitHook /\ [][HookNext]_vars

\* C29: polling is tied to the pending state: once the transaction is no
\* longer pending the timers stop, and at no time is more than one polling
\* timer active for the hook instance.  The formula is the second part.
C29_AtMostOnePollingTimer ==
    Len(intervals) <= 1

===========================================================================
